---- MODULE Spec2Model ----
(***************************************************************************)
(* Model of ethcore/src/private_transactions/private_transactions.rs:      *)
(* VerificationStore (descriptor table over a TransactionQueue) and        *)
(* SigningStore (map private_hash -> PrivateTransactionSigningDesc).       *)
(*                                                                         *)
(* MAX_QUEUE_LEN is 8312 in the source; the model keeps the comparison of  *)
(* the source (len > MAX_QUEUE_LEN) and scales the number down so that the *)
(* boundary states are reachable.                                          *)
(*                                                                         *)
(* miner::TransactionQueue and SignedTransaction::new are not part of the  *)
(* file; they are modelled from the interface description (QueueAdd,       *)
(* QueueRemove, top_transactions, SignedTransactionNew).                   *)
(***************************************************************************)
EXTENDS Integers, Sequences, FiniteSets, TLC

VARIABLES descriptors, transactions, signing, ret, supplied, admitted, removed,
          mode, pc, observed

vars == <<descriptors, transactions, signing, ret, supplied, admitted, removed,
          mode, pc, observed>>

\* the coordinator's and the reader's variables
cvars == <<mode, pc, observed>>

\* the coordinator is not in the middle of a move
Idle == [rest |-> "idle", tx |-> 0, key |-> 0, validator |-> 0]

(* ---------------------------- bounds ----------------------------------- *)

MAX_QUEUE_LEN == 2

NumHashes == 4

NumAddresses == 2

NumPrivateHashes == 1

NumSignatures == 2

NumPayloads == 2

H256 == 1..NumHashes

Address == 1..NumAddresses

\* private hashes handed to VerificationStore (kept apart from the addresses)
PrivateHashes == {100 + i : i \in 1..NumPrivateHashes}

\* private hashes used as keys of SigningStore
SigningKeys == 1..(MAX_QUEUE_LEN + 1)

Signature == 1..NumSignatures

(* ------------------------- transactions -------------------------------- *)

\* An UnverifiedTransaction is identified by its hash; the hash fixes the
\* sender, the nonce and whether the signature recovers.
Sender(tx) == ((tx - 1) % NumAddresses) + 1

Nonce(tx) == (tx - 1) \div NumAddresses

\* SignedTransaction::new(transaction)? : the last hash of the universe
\* carries a signature that does not recover.
SignedTransactionNew(tx) ==
    IF tx < NumHashes THEN "Ok" ELSE "InvalidSignature"

PoolErrors == {"Old", "InsufficientBalance"}

(* ------------------------- sequence helpers ---------------------------- *)

Range(s) == {s[i] : i \in 1..Len(s)}

Front(s) == SubSeq(s, 1, Len(s) - 1)

InsertAt(s, i, x) == SubSeq(s, 1, i - 1) \o <<x>> \o SubSeq(s, i, Len(s))

RECURSIVE Without(_, _)
Without(s, D) ==
    IF s = <<>> THEN <<>>
    ELSE IF Head(s) \in D THEN Without(Tail(s), D)
         ELSE <<Head(s)>> \o Without(Tail(s), D)

(* ----------------------- TransactionQueue ------------------------------ *)

\* TransactionQueue::add : the outcomes of admitting tx into queue q.  The
\* pool either rejects with one of its own errors and stays as it is, or
\* accepts and ranks the transaction at a position of its own choosing.
QueueAdd(q, tx) ==
    { [res |-> e, queue |-> q] : e \in PoolErrors }
    \cup
    IF tx \in Range(q) THEN {}
    ELSE { [res |-> "Ok", queue |-> InsertAt(q, i, tx)] : i \in 1..(Len(q) + 1) }

\* Transactions of the same sender that depend on tx (higher nonce).
Dependents(q, tx) ==
    { t \in Range(q) : Sender(t) = Sender(tx) /\ Nonce(t) > Nonce(tx) }

\* TransactionQueue::remove(hash, fetch_nonce, RemovalReason::Invalid) :
\* removes the transaction and, depending on the nonce oracle, a set of its
\* dependents; removing an absent transaction changes nothing.
QueueRemove(q, tx) ==
    IF tx \notin Range(q) THEN {q}
    ELSE { Without(q, {tx} \cup D) : D \in SUBSET Dependents(q, tx) }

\* TransactionQueue::top_transactions : the pool's candidates, best first.
top_transactions(q) == q

(* ----------------------- VerificationStore ----------------------------- *)

PrivateTransactionDesc(private_hash, contract, validator_account) ==
    [private_hash |-> private_hash, contract |-> contract,
     validator_account |-> validator_account]

NoVal == <<>>

Ret(op, hash, res, val, collab, verified, submitted) ==
    [op |-> op, hash |-> hash, res |-> res, val |-> val, collab |-> collab,
     verified |-> verified, submitted |-> submitted]

QueueIsFull_LateCheck(len) == len > MAX_QUEUE_LEN + 1

\* if self.descriptors.len() > MAX_QUEUE_LEN
QueueIsFull(len) == len > MAX_QUEUE_LEN

AlreadyImported_Never(descs, tx) == FALSE

AlreadyImported_ByPrivateHash(descs, tx) ==
    \E k \in DOMAIN descs : descs[k].private_hash = tx

\* if self.descriptors.get(&transaction.hash()).is_some()
AlreadyImported(descs, tx) == tx \in DOMAIN descs

\* HashMap::insert
MapInsert(m, k, v) == [x \in DOMAIN m \cup {k} |-> IF x = k THEN v ELSE m[x]]

MapRemove_Noop(m, k) == m

\* HashMap::remove
MapRemove(m, k) == [x \in DOMAIN m \ {k} |-> m[x]]

DescriptorsAfterAdd_Dropped(descs, res, tx, contract, validator_account, private_hash) ==
    descs

DescriptorsAfterAdd_BeforePool(descs, res, tx, contract, validator_account, private_hash) ==
    [x \in DOMAIN descs \cup {tx} |->
        IF x = tx
        THEN PrivateTransactionDesc(private_hash, contract, validator_account)
        ELSE descs[x]]

DescriptorsAfterAdd_Swapped(descs, res, tx, contract, validator_account, private_hash) ==
    IF res = "Ok"
    THEN [x \in DOMAIN descs \cup {tx} |->
            IF x = tx
            THEN PrivateTransactionDesc(private_hash, validator_account, contract)
            ELSE descs[x]]
    ELSE descs

\* match self.transactions.add(..) { Ok(_) => insert descriptor, Err(e) => Err(e) }
DescriptorsAfterAdd(descs, res, tx, contract, validator_account, private_hash) ==
    IF res = "Ok"
    THEN MapInsert(descs, tx,
                   PrivateTransactionDesc(private_hash, contract, validator_account))
    ELSE descs

\* The error handed back for a failure of a collaborator: Err(e) => Err(e)
Propagate(e) == e

\* whether the call before this one evicted an entry right after an
\* add_transaction that failed with QueueIsFull
AfterEvict(op) == [after_evict |-> ret.op = op /\ ret.val.evicted_after_full]

VerificationStore_add_transaction(tx, contract, validator_account, private_hash) ==
    IF QueueIsFull(Cardinality(DOMAIN descriptors))
    THEN /\ ret' = Ret("v_add", tx, "QueueIsFull", AfterEvict("v_remove"), "None",
                       FALSE, FALSE)
         /\ UNCHANGED <<descriptors, transactions, signing, supplied, admitted, removed>>
    ELSE IF AlreadyImported(descriptors, tx)
    THEN /\ ret' = Ret("v_add", tx, "PrivateTransactionAlreadyImported",
                       AfterEvict("v_remove"), "None", FALSE, FALSE)
         /\ UNCHANGED <<descriptors, transactions, signing, supplied, admitted, removed>>
    ELSE IF SignedTransactionNew(tx) # "Ok"
    THEN /\ ret' = Ret("v_add", tx, Propagate(SignedTransactionNew(tx)),
                       AfterEvict("v_remove"), SignedTransactionNew(tx), TRUE, FALSE)
         /\ UNCHANGED <<descriptors, transactions, signing, supplied, admitted, removed>>
    ELSE \E o \in QueueAdd(transactions, tx) :
         /\ transactions' = o.queue
         /\ descriptors' = DescriptorsAfterAdd(descriptors, o.res, tx, contract,
                                               validator_account, private_hash)
         /\ ret' = IF o.res = "Ok"
                   THEN Ret("v_add", tx, "Ok", AfterEvict("v_remove"), "None",
                            TRUE, TRUE)
                   ELSE Ret("v_add", tx, Propagate(o.res), AfterEvict("v_remove"),
                            o.res, TRUE, TRUE)
         /\ supplied' = IF o.res = "Ok"
                        THEN MapInsert(supplied, tx,
                                PrivateTransactionDesc(private_hash, contract,
                                                       validator_account))
                        ELSE supplied
         /\ admitted' = IF o.res = "Ok" THEN admitted \cup {tx} ELSE admitted
         /\ UNCHANGED <<signing, removed>>

SortBySender_Skipped(s) == s

\* transactions.sort_by(|a, b| a.sender().cmp(&b.sender())) : a stable sort
RECURSIVE SortBySender(_)
SortBySender(s) ==
    IF s = <<>> THEN <<>>
    ELSE LET sorted == SortBySender(Front(s))
             x == s[Len(s)]
             k == Cardinality({i \in 1..Len(sorted) : Sender(sorted[i]) <= Sender(x)})
         IN  InsertAt(sorted, k + 1, x)

RECURSIVE DedupBySender_KeepLast(_)
DedupBySender_KeepLast(s) ==
    IF Len(s) <= 1 THEN s
    ELSE LET d == DedupBySender_KeepLast(SubSeq(s, 2, Len(s)))
         IN  IF Sender(s[1]) = Sender(d[1])
             THEN d ELSE <<s[1]>> \o d

\* transactions.dedup_by(|a, b| a.sender().eq(&b.sender())) : of a run of
\* consecutive elements with the same sender the first one is kept
RECURSIVE DedupBySender(_)
DedupBySender(s) ==
    IF Len(s) <= 1 THEN s
    ELSE LET d == DedupBySender(Front(s))
             x == s[Len(s)]
         IN  IF Sender(x) = Sender(d[Len(d)]) THEN d ELSE Append(d, x)

ready_transactions(q) == DedupBySender(SortBySender(top_transactions(q)))

VerificationStore_ready_transactions ==
    /\ ret' = Ret("v_ready", 0, "Ok", ready_transactions(transactions), "None",
                  FALSE, FALSE)
    /\ UNCHANGED <<descriptors, transactions, signing, supplied, admitted, removed>>

private_transaction_descriptor(descs, tx) ==
    IF tx \in DOMAIN descs
    THEN [res |-> "Ok", val |-> descs[tx]]
    ELSE [res |-> "PrivateTransactionNotFound", val |-> NoVal]

VerificationStore_private_transaction_descriptor(tx) ==
    /\ ret' = Ret("v_descriptor", tx, private_transaction_descriptor(descriptors, tx).res,
                  private_transaction_descriptor(descriptors, tx).val, "None",
                  FALSE, FALSE)
    /\ UNCHANGED <<descriptors, transactions, signing, supplied, admitted, removed>>

RemoveVal(tx) ==
    [descriptor |-> tx \in DOMAIN descriptors,
     pooled |-> tx \in Range(transactions),
     evicted_after_full |-> /\ tx \in DOMAIN descriptors
                            /\ ret.op = "v_add"
                            /\ ret.res = "QueueIsFull"]

VerificationStore_remove_private_transaction_PoolOnly(tx) ==
    /\ transactions' \in QueueRemove(transactions, tx)
    /\ ret' = Ret("v_remove", tx, "Ok", RemoveVal(tx), "None", FALSE, FALSE)
    /\ UNCHANGED <<descriptors, supplied, signing, admitted, removed>>

VerificationStore_remove_private_transaction_DescriptorOnly(tx) ==
    /\ descriptors' = MapRemove(descriptors, tx)
    /\ supplied' = MapRemove(supplied, tx)
    /\ ret' = Ret("v_remove", tx, "Ok", RemoveVal(tx), "None", FALSE, FALSE)
    /\ UNCHANGED <<transactions, signing, admitted, removed>>

VerificationStore_remove_private_transaction(tx) ==
    /\ descriptors' = MapRemove(descriptors, tx)
    /\ transactions' \in QueueRemove(transactions, tx)
    /\ supplied' = MapRemove(supplied, tx)
    /\ ret' = Ret("v_remove", tx, "Ok", RemoveVal(tx), "None", FALSE, FALSE)
    /\ UNCHANGED <<signing, admitted, removed>>

(* -------------------------- SigningStore ------------------------------- *)

\* The (transaction, validators, state) triples handed to
\* SigningStore::add_transaction: payload p is transaction p with
\* validators <<1, .., p>> and state bytes p.
SigningInputs ==
    { [transaction |-> p, validators |-> [i \in 1..p |-> i], state |-> p] :
        p \in 1..NumPayloads }

PrivateTransactionSigningDesc(transaction, validators, state) ==
    [original_transaction |-> transaction, validators |-> validators,
     received_signatures |-> <<>>, state |-> state]

\* what the call found: whether it follows an eviction from a full store and
\* how many signatures the entry under the key held (-1: no entry)
SAddVal(private_hash) ==
    [after_evict |-> ret.op = "s_remove" /\ ret.val.evicted_after_full,
     replaced |-> IF private_hash \in DOMAIN signing
                  THEN Len(signing[private_hash].received_signatures)
                  ELSE -1]

SigningStore_add_transaction_KeepExisting(private_hash, transaction, validators, state) ==
    IF QueueIsFull(Cardinality(DOMAIN signing))
    THEN /\ ret' = Ret("s_add", private_hash, "QueueIsFull",
                       SAddVal(private_hash), "None", FALSE, FALSE)
         /\ UNCHANGED <<descriptors, transactions, signing, supplied, admitted, removed>>
    ELSE /\ signing' = IF private_hash \in DOMAIN signing THEN signing
                       ELSE MapInsert(signing, private_hash,
                              PrivateTransactionSigningDesc(transaction, validators,
                                                            state))
         /\ ret' = Ret("s_add", private_hash, "Ok", SAddVal(private_hash), "None",
                       FALSE, FALSE)
         /\ removed' = removed \ {private_hash}
         /\ UNCHANGED <<descriptors, transactions, supplied, admitted>>

SigningStore_add_transaction(private_hash, transaction, validators, state) ==
    IF QueueIsFull(Cardinality(DOMAIN signing))
    THEN /\ ret' = Ret("s_add", private_hash, "QueueIsFull",
                       SAddVal(private_hash), "None", FALSE, FALSE)
         /\ UNCHANGED <<descriptors, transactions, signing, supplied, admitted, removed>>
    ELSE /\ signing' = MapInsert(signing, private_hash,
                          PrivateTransactionSigningDesc(transaction, validators, state))
         /\ ret' = Ret("s_add", private_hash, "Ok", SAddVal(private_hash), "None",
                       FALSE, FALSE)
         /\ removed' = removed \ {private_hash}
         /\ UNCHANGED <<descriptors, transactions, supplied, admitted>>

\* self.transactions.get(private_hash).cloned()
get(m, private_hash) ==
    IF private_hash \in DOMAIN m
    THEN [res |-> "Some", val |-> m[private_hash]]
    ELSE [res |-> "None", val |-> NoVal]

SigningStore_get(private_hash) ==
    /\ ret' = Ret("s_get", private_hash, get(signing, private_hash).res,
                  get(signing, private_hash).val, "None", FALSE, FALSE)
    /\ UNCHANGED <<descriptors, transactions, signing, supplied, admitted, removed>>

SigningStore_remove_Clear(private_hash) ==
    /\ signing' = [x \in {} |-> 0]
    /\ ret' = Ret("s_remove", private_hash, "Ok",
                  [present |-> private_hash \in DOMAIN signing,
                   evicted_after_full |-> /\ private_hash \in DOMAIN signing
                                          /\ ret.op = "s_add"
                                          /\ ret.res = "QueueIsFull"],
                  "None", FALSE, FALSE)
    /\ removed' = IF private_hash \in DOMAIN signing
                  THEN removed \cup {private_hash} ELSE removed
    /\ UNCHANGED <<descriptors, transactions, supplied, admitted>>

SigningStore_remove(private_hash) ==
    /\ signing' = MapRemove(signing, private_hash)
    /\ ret' = Ret("s_remove", private_hash, "Ok",
                  [present |-> private_hash \in DOMAIN signing,
                   evicted_after_full |-> /\ private_hash \in DOMAIN signing
                                          /\ ret.op = "s_add"
                                          /\ ret.res = "QueueIsFull"],
                  "None", FALSE, FALSE)
    /\ removed' = IF private_hash \in DOMAIN signing
                  THEN removed \cup {private_hash} ELSE removed
    /\ UNCHANGED <<descriptors, transactions, supplied, admitted>>

PushSignature_Always(sigs, signature) == Append(sigs, signature)

PushSignature_Prepend(sigs, signature) ==
    IF signature \in Range(sigs) THEN sigs ELSE <<signature>> \o sigs

\* if !desc.received_signatures.contains(&signature) { push }
PushSignature(sigs, signature) ==
    IF signature \in Range(sigs) THEN sigs ELSE Append(sigs, signature)

SigningStore_add_signature_OrInsert(private_hash, signature) ==
    /\ signing' =
          IF private_hash \in DOMAIN signing
          THEN [signing EXCEPT ![private_hash].received_signatures =
                    PushSignature(@, signature)]
          ELSE MapInsert(signing, private_hash,
                         [original_transaction |-> 0, validators |-> <<>>,
                          received_signatures |-> <<signature>>, state |-> 0])
    /\ ret' = Ret("s_add_signature", private_hash, "Ok",
                  [signature |-> signature, present |-> FALSE], "None", FALSE, FALSE)
    /\ UNCHANGED <<descriptors, transactions, supplied, admitted, removed>>

SigningStore_add_signature(private_hash, signature) ==
    IF private_hash \notin DOMAIN signing
    THEN /\ ret' = Ret("s_add_signature", private_hash, "PrivateTransactionNotFound",
                       [signature |-> signature, present |-> FALSE], "None",
                       FALSE, FALSE)
         /\ UNCHANGED <<descriptors, transactions, signing, supplied, admitted, removed>>
    ELSE /\ signing' = [signing EXCEPT ![private_hash].received_signatures =
                            PushSignature(@, signature)]
         /\ ret' = Ret("s_add_signature", private_hash, "Ok",
                       [signature |-> signature,
                        present |-> signature \in
                            Range(signing[private_hash].received_signatures)],
                       "None", FALSE, FALSE)
         /\ UNCHANGED <<descriptors, transactions, supplied, admitted, removed>>

(* ------------------------- specifications ------------------------------ *)

EmptyMap == [x \in {} |-> 0]

Init ==
    /\ descriptors = EmptyMap
    /\ transactions = <<>>
    /\ signing = EmptyMap
    /\ supplied = EmptyMap
    /\ admitted = {}
    /\ removed = {}
    /\ ret = Ret("new", 0, "Ok", NoVal, "None", FALSE, FALSE)
    /\ mode = "atomic"
    /\ pc = Idle
    /\ observed = {}

VAdd ==
    \E tx \in H256, contract \in Address, validator_account \in Address,
       private_hash \in PrivateHashes :
        /\ VerificationStore_add_transaction(tx, contract, validator_account,
                                             private_hash)
        /\ UNCHANGED cvars

VReady == VerificationStore_ready_transactions /\ UNCHANGED cvars

VDescriptor ==
    \E tx \in H256 :
        VerificationStore_private_transaction_descriptor(tx) /\ UNCHANGED cvars

VRemove ==
    \E tx \in H256 :
        VerificationStore_remove_private_transaction(tx) /\ UNCHANGED cvars

SAdd ==
    \E private_hash \in SigningKeys, in \in SigningInputs :
        /\ SigningStore_add_transaction(private_hash, in.transaction, in.validators,
                                        in.state)
        /\ UNCHANGED cvars

SGet ==
    \E private_hash \in SigningKeys :
        SigningStore_get(private_hash) /\ UNCHANGED cvars

SRemove ==
    \E private_hash \in SigningKeys :
        SigningStore_remove(private_hash) /\ UNCHANGED cvars

SAddSignature ==
    \E private_hash \in SigningKeys, signature \in Signature :
        /\ SigningStore_add_signature(private_hash, signature)
        /\ UNCHANGED cvars

\* VerificationStore alone
Next == VAdd \/ VReady \/ VDescriptor \/ VRemove

Spec == Init /\ [][Next]_vars

\* SigningStore alone
NextS == SAdd \/ SGet \/ SRemove \/ SAddSignature

SpecS == Init /\ [][NextS]_vars

\* The two stores are independent objects: this specification exercises
\* either of them, one at a time, from construction.
VerificationUntouched ==
    descriptors = EmptyMap /\ transactions = <<>> /\ admitted = {}

SigningUntouched == signing = EmptyMap /\ removed = {}

NextEither == (SigningUntouched /\ Next) \/ (VerificationUntouched /\ NextS)

SpecEither == Init /\ [][NextEither]_vars

(* ----------------------------- coordinator ----------------------------- *)

\* The coordinator owns both stores and moves a verified transaction from
\* VerificationStore to SigningStore, keyed by the private hash of its
\* descriptor.  In mode "atomic" the two halves of the move are one step
\* under exclusive access to both stores; in mode "split" each half is a
\* step of its own and other steps can come between them.  A reader looks
\* up an admitted transaction in both stores.

InVerification(tx) == tx \in DOMAIN descriptors

InSigning(tx) == \E k \in DOMAIN signing : signing[k].original_transaction = tx

Where(tx) ==
    IF InVerification(tx)
    THEN IF InSigning(tx) THEN "both" ELSE "verification"
    ELSE IF InSigning(tx) THEN "signing" ELSE "neither"

\* the coordinator moves a stored transaction whose private hash is not
\* being signed yet, and only when SigningStore has room
CanMove(tx) ==
    /\ pc.rest = "idle"
    /\ tx \in DOMAIN descriptors
    /\ descriptors[tx].private_hash \notin DOMAIN signing
    /\ ~QueueIsFull(Cardinality(DOMAIN signing))

\* the half of the move on VerificationStore: remove_private_transaction
RemoveHalf(tx) ==
    /\ descriptors' = MapRemove(descriptors, tx)
    /\ transactions' \in QueueRemove(transactions, tx)
    /\ supplied' = MapRemove(supplied, tx)

\* the half of the move on SigningStore: add_transaction
InsertHalf(tx, key, validator) ==
    /\ signing' = MapInsert(signing, key,
                            PrivateTransactionSigningDesc(tx, <<validator>>, 1))
    /\ removed' = removed \ {key}

MoveAtomic(tx) ==
    /\ mode = "atomic"
    /\ CanMove(tx)
    /\ RemoveHalf(tx)
    /\ InsertHalf(tx, descriptors[tx].private_hash, descriptors[tx].validator_account)
    /\ UNCHANGED <<ret, admitted, mode, pc, observed>>

MoveRemoveFirst(tx) ==
    /\ mode = "split"
    /\ CanMove(tx)
    /\ RemoveHalf(tx)
    /\ pc' = [rest |-> "insert", tx |-> tx, key |-> descriptors[tx].private_hash,
              validator |-> descriptors[tx].validator_account]
    /\ UNCHANGED <<signing, removed, ret, admitted, mode, observed>>

MoveInsertFirst(tx) ==
    /\ mode = "split"
    /\ CanMove(tx)
    /\ InsertHalf(tx, descriptors[tx].private_hash, descriptors[tx].validator_account)
    /\ pc' = [rest |-> "remove", tx |-> tx, key |-> descriptors[tx].private_hash,
              validator |-> descriptors[tx].validator_account]
    /\ UNCHANGED <<descriptors, transactions, supplied, ret, admitted, mode,
                   observed>>

MoveSecondHalf ==
    /\ pc.rest # "idle"
    /\ IF pc.rest = "insert"
       THEN /\ InsertHalf(pc.tx, pc.key, pc.validator)
            /\ UNCHANGED <<descriptors, transactions, supplied>>
       ELSE /\ RemoveHalf(pc.tx)
            /\ UNCHANGED <<signing, removed>>
    /\ pc' = Idle
    /\ UNCHANGED <<ret, admitted, mode, observed>>

\* a reader looks up a transaction that has been admitted
Observe(tx) ==
    /\ tx \in admitted
    /\ observed' = observed \cup {Where(tx)}
    /\ UNCHANGED <<descriptors, transactions, signing, supplied, admitted, removed,
                   ret, mode, pc>>

\* a private transaction is delivered until it has been admitted once
CAdmit ==
    \E tx \in H256, contract \in Address, validator_account \in Address,
       private_hash \in PrivateHashes :
        /\ tx \notin admitted
        /\ VerificationStore_add_transaction(tx, contract, validator_account,
                                             private_hash)
        /\ UNCHANGED cvars

CMoveAtomic == \E tx \in H256 : MoveAtomic(tx)

CMoveRemoveFirst == \E tx \in H256 : MoveRemoveFirst(tx)

CMoveInsertFirst == \E tx \in H256 : MoveInsertFirst(tx)

CObserve == \E tx \in H256 : Observe(tx)

InitMove ==
    /\ descriptors = EmptyMap
    /\ transactions = <<>>
    /\ signing = EmptyMap
    /\ supplied = EmptyMap
    /\ admitted = {}
    /\ removed = {}
    /\ ret = Ret("new", 0, "Ok", NoVal, "None", FALSE, FALSE)
    /\ mode \in {"atomic", "split"}
    /\ pc = Idle
    /\ observed = {}

NextMove ==
    \/ CAdmit
    \/ CMoveAtomic
    \/ CMoveRemoveFirst
    \/ CMoveInsertFirst
    \/ MoveSecondHalf
    \/ CObserve

SpecMove == InitMove /\ [][NextMove]_vars

(* ------------------------------ claims --------------------------------- *)

\* C1: in every reachable state of VerificationStore the number of stored
\* descriptors never exceeds MAX_QUEUE_LEN.
C1_DescriptorsWithinMax == Cardinality(DOMAIN descriptors) <= MAX_QUEUE_LEN

\* C2: in every reachable state of SigningStore the number of entries never
\* exceeds MAX_QUEUE_LEN.
C2_SigningWithinMax == Cardinality(DOMAIN signing) <= MAX_QUEUE_LEN

\* C3: when a store holds exactly MAX_QUEUE_LEN + 1 entries, add_transaction
\* with any arguments (also a stored key) fails with QueueIsFull and leaves
\* the store as it is; VerificationStore then neither verifies the signature
\* nor submits the transaction to the pool.
C3_FullStoreRejects ==
    [][ /\ \A tx \in H256, c \in Address, v \in Address, p \in PrivateHashes :
            ( /\ Cardinality(DOMAIN descriptors) = MAX_QUEUE_LEN + 1
              /\ VerificationStore_add_transaction(tx, c, v, p) )
            => ( /\ ret'.res = "QueueIsFull"
                 /\ descriptors' = descriptors
                 /\ transactions' = transactions
                 /\ ~ret'.verified
                 /\ ~ret'.submitted )
        /\ \A k \in SigningKeys, in \in SigningInputs :
            ( /\ Cardinality(DOMAIN signing) = MAX_QUEUE_LEN + 1
              /\ SigningStore_add_transaction(k, in.transaction, in.validators,
                                              in.state) )
            => ( /\ ret'.res = "QueueIsFull"
                 /\ signing' = signing )
      ]_vars

\* a full VerificationStore has just refused a transaction whose hash it holds
C3_Witness ==
    /\ Cardinality(DOMAIN descriptors) = MAX_QUEUE_LEN + 1
    /\ ret.op = "v_add"
    /\ ret.res = "QueueIsFull"
    /\ ret.hash \in DOMAIN descriptors

\* a full SigningStore has just refused a transaction under a stored key
C3_WitnessSigning ==
    /\ Cardinality(DOMAIN signing) = MAX_QUEUE_LEN + 1
    /\ ret.op = "s_add"
    /\ ret.res = "QueueIsFull"
    /\ ret.hash \in DOMAIN signing

\* C4 (as claimed): over any sequence of add_transaction and
\* remove_private_transaction calls at most one add_transaction for the same
\* transaction hash succeeds.
C4_AdmittedAtMostOnce ==
    [][ \A tx \in H256, c \in Address, v \in Address, p \in PrivateHashes :
            ( /\ tx \in admitted
              /\ VerificationStore_add_transaction(tx, c, v, p) )
            => ret'.res # "Ok"
      ]_vars

\* C4 (amended): from a successful add_transaction for hash h until
\* remove_private_transaction(h) is called, every add_transaction with hash h
\* is rejected and admits nothing.
C4_AdmittedOncePerStay ==
    [][ \A tx \in H256, c \in Address, v \in Address, p \in PrivateHashes :
            ( /\ tx \in DOMAIN supplied
              /\ VerificationStore_add_transaction(tx, c, v, p) )
            => ( /\ ret'.res # "Ok"
                 /\ admitted' = admitted
                 /\ transactions' = transactions )
      ]_vars

\* a retry with the hash of an admitted, not removed transaction was rejected
C4_Witness ==
    /\ ret.op = "v_add"
    /\ ret.hash \in DOMAIN supplied
    /\ ret.res = "PrivateTransactionAlreadyImported"

C6_DescriptorsInPool ==
    \A tx \in DOMAIN descriptors : tx \in Range(transactions)

\* C7: when add_transaction fails in signature verification or in the pool,
\* the collaborator's error is returned unchanged, no descriptor is stored
\* for the transaction hash and the descriptor table is as before.
C7_CollaboratorFailure ==
    [][ \A tx \in H256, c \in Address, v \in Address, p \in PrivateHashes :
            ( /\ VerificationStore_add_transaction(tx, c, v, p)
              /\ ret'.collab # "None" )
            => ( /\ ret'.res = ret'.collab
                 /\ tx \notin DOMAIN descriptors'
                 /\ descriptors' = descriptors )
      ]_vars

\* the pool has just rejected a verified transaction of a non-empty store
C7_Witness ==
    /\ ret.op = "v_add"
    /\ ret.collab \in PoolErrors
    /\ ret.submitted
    /\ descriptors # EmptyMap
    /\ ret.hash \notin DOMAIN descriptors

\* signature verification has just failed
C7_WitnessSignature ==
    /\ ret.op = "v_add"
    /\ ret.collab = "InvalidSignature"
    /\ ret.verified
    /\ ~ret.submitted

\* C8: after a successful add_transaction for hash h with a descriptor d,
\* private_transaction_descriptor(h) returns d, and goes on returning d as
\* long as remove_private_transaction(h) is not called.
C8_DescriptorKept ==
    /\ \A h \in DOMAIN supplied :
          /\ private_transaction_descriptor(descriptors, h).res = "Ok"
          /\ private_transaction_descriptor(descriptors, h).val = supplied[h]
    /\ (ret.op = "v_descriptor" /\ ret.hash \in DOMAIN supplied)
          => (ret.res = "Ok" /\ ret.val = supplied[ret.hash])

\* the descriptor of an admitted transaction was read back while another
\* transaction, admitted with a different descriptor, is stored
C8_Witness ==
    /\ ret.op = "v_descriptor"
    /\ ret.hash \in DOMAIN supplied
    /\ ret.res = "Ok"
    /\ \E h \in DOMAIN supplied : supplied[h] # supplied[ret.hash]
    /\ supplied[ret.hash].contract # supplied[ret.hash].validator_account

SendersOf(q) == {Sender(q[i]) : i \in 1..Len(q)}

\* C9: with the pool holding N transactions of K distinct senders,
\* ready_transactions() returns exactly K transactions, no two of the same
\* sender, every sender represented, each one a transaction of the pool.
C9_OnePerSender ==
    ret.op = "v_ready" =>
        /\ Len(ret.val) = Cardinality(SendersOf(transactions))
        /\ \A i, j \in 1..Len(ret.val) :
              i # j => Sender(ret.val[i]) # Sender(ret.val[j])
        /\ SendersOf(ret.val) = SendersOf(transactions)
        /\ Range(ret.val) \subseteq Range(transactions)

\* ready_transactions() returned two of three transactions, the two of the
\* same sender being apart in the pool's ranking
C9_Witness ==
    /\ ret.op = "v_ready"
    /\ Len(transactions) = 3
    /\ Len(ret.val) = 2
    /\ Sender(transactions[1]) = Sender(transactions[3])
    /\ Sender(transactions[1]) # Sender(transactions[2])

\* position of the first transaction of sender a in the ranking q
FirstOfSender(q, a) ==
    q[CHOOSE i \in 1..Len(q) :
        /\ Sender(q[i]) = a
        /\ \A j \in 1..(i - 1) : Sender(q[j]) # a]

\* C10: the transaction ready_transactions() returns for a sender is the
\* first of that sender's transactions in the pool's ranking.
C10_ForemostOfSender ==
    ret.op = "v_ready" =>
        \A i \in 1..Len(ret.val) :
            ret.val[i] = FirstOfSender(transactions, Sender(ret.val[i]))

\* a sender has two candidates, the later nonce ranked first, and
\* ready_transactions() returned that one
C10_Witness ==
    /\ ret.op = "v_ready"
    /\ \E i, j \in 1..Len(transactions) :
          /\ i < j
          /\ Sender(transactions[i]) = Sender(transactions[j])
          /\ Nonce(transactions[i]) > Nonce(transactions[j])
          /\ transactions[i] \in Range(ret.val)

\* C11: for any hash h, stored or not, after remove_private_transaction(h, f)
\* private_transaction_descriptor(h) fails with PrivateTransactionNotFound;
\* the removal itself does not fail and the descriptors stored under every
\* other hash are unchanged.
C11_RemovedIsNotFound ==
    [][ \A tx \in H256 :
            VerificationStore_remove_private_transaction(tx)
            => ( /\ ret'.res = "Ok"
                 /\ private_transaction_descriptor(descriptors', tx).res =
                        "PrivateTransactionNotFound"
                 /\ DOMAIN descriptors' \ {tx} = DOMAIN descriptors \ {tx}
                 /\ \A h \in DOMAIN descriptors \ {tx} :
                        descriptors'[h] = descriptors[h] )
      ]_vars

\* the descriptor of a stored hash has just been removed and another
\* descriptor is still stored
C11_Witness ==
    /\ ret.op = "v_remove"
    /\ ret.val.descriptor
    /\ ret.hash \notin DOMAIN descriptors
    /\ descriptors # EmptyMap

\* the removal was called for a hash that had no descriptor
C11_WitnessAbsent ==
    /\ ret.op = "v_remove"
    /\ ~ret.val.descriptor
    /\ descriptors # EmptyMap

\* C12: after remove_private_transaction(h_A) ready_transactions() does not
\* return A until A is admitted again, and a transaction B of another
\* sender that ready_transactions() returned before the removal is still
\* returned after it.
C12_RemovedNotReady ==
    [][ /\ \A tx \in H256 :
            VerificationStore_remove_private_transaction(tx)
            => ( /\ tx \notin Range(ready_transactions(transactions'))
                 /\ \A b \in Range(ready_transactions(transactions)) :
                        Sender(b) # Sender(tx)
                        => b \in Range(ready_transactions(transactions')) )
        /\ \A tx \in H256 :
            ( /\ tx \notin Range(transactions)
              /\ tx \in Range(ready_transactions(transactions')) )
            => ( ret'.op = "v_add" /\ ret'.hash = tx /\ ret'.res = "Ok" )
      ]_vars

\* A, held by the pool, has just been removed, and a transaction of another
\* sender is returned by ready_transactions()
C12_Witness ==
    /\ ret.op = "v_remove"
    /\ ret.val.pooled
    /\ ret.hash \notin Range(ready_transactions(transactions))
    /\ \E b \in Range(ready_transactions(transactions)) :
          Sender(b) # Sender(ret.hash)

NoDuplicates(sigs) ==
    \A i, j \in 1..Len(sigs) : i # j => sigs[i] # sigs[j]

\* C13: received_signatures of every entry of SigningStore never holds a
\* signature twice; add_signature(h, s) with s already in the entry returns
\* Ok and leaves the entry, and the store, as it is.
C13_SignaturesUnique ==
    /\ [](\A k \in DOMAIN signing : NoDuplicates(signing[k].received_signatures))
    /\ [][ \A k \in SigningKeys, sig \in Signature :
              ( /\ k \in DOMAIN signing
                /\ sig \in Range(signing[k].received_signatures)
                /\ SigningStore_add_signature(k, sig) )
              => ( ret'.res = "Ok" /\ signing' = signing )
        ]_vars

\* a signature was delivered again to an entry that holds two signatures
C13_Witness ==
    /\ ret.op = "s_add_signature"
    /\ ret.res = "Ok"
    /\ ret.val.present
    /\ Len(signing[ret.hash].received_signatures) = 2

\* C14: add_signature(h, s) fails with PrivateTransactionNotFound and leaves
\* the store unchanged whenever no entry is stored under h, whether h was
\* never inserted or was inserted and then removed.
C14_SignatureNeedsEntry ==
    [][ \A k \in SigningKeys, sig \in Signature :
            ( /\ k \notin DOMAIN signing
              /\ SigningStore_add_signature(k, sig) )
            => ( /\ ret'.res = "PrivateTransactionNotFound"
                 /\ signing' = signing )
      ]_vars

\* a signature arrived for an entry that had been inserted and removed
C14_Witness ==
    /\ ret.op = "s_add_signature"
    /\ ret.res = "PrivateTransactionNotFound"
    /\ ret.hash \in removed
    /\ ret.hash \notin DOMAIN signing

\* a signature arrived for a private hash that was never inserted
C14_WitnessNever ==
    /\ ret.op = "s_add_signature"
    /\ ret.res = "PrivateTransactionNotFound"
    /\ ret.hash \notin removed
    /\ signing # EmptyMap

\* C15: add_transaction with a private_hash that has an entry, in a store
\* not over capacity, succeeds, replaces the descriptor by the new
\* transaction, validators and state with no signatures, and leaves the
\* set of keys and every other entry as they are.
C15_ReAddReplaces ==
    [][ \A k \in SigningKeys, in \in SigningInputs :
            ( /\ k \in DOMAIN signing
              /\ Cardinality(DOMAIN signing) <= MAX_QUEUE_LEN
              /\ SigningStore_add_transaction(k, in.transaction, in.validators,
                                              in.state) )
            => ( /\ ret'.res = "Ok"
                 /\ DOMAIN signing' = DOMAIN signing
                 /\ signing'[k] = [original_transaction |-> in.transaction,
                                   validators |-> in.validators,
                                   received_signatures |-> <<>>,
                                   state |-> in.state]
                 /\ \A h \in DOMAIN signing \ {k} : signing'[h] = signing[h] )
      ]_vars

\* an entry that held signatures has just been replaced by an entry without
C15_Witness ==
    /\ ret.op = "s_add"
    /\ ret.res = "Ok"
    /\ ret.val.replaced >= 1
    /\ signing[ret.hash].received_signatures = <<>>
    /\ Cardinality(DOMAIN signing) >= 2

\* C16: remove(h) returns Ok whether or not an entry exists under h;
\* afterwards get(h) returns no descriptor, a second remove(h) changes
\* nothing, and the entries under every other private hash are unchanged.
C16_RemoveIdempotent ==
    [][ \A k \in SigningKeys :
            SigningStore_remove(k)
            => ( /\ ret'.res = "Ok"
                 /\ get(signing', k).res = "None"
                 /\ k \notin DOMAIN signing => signing' = signing
                 /\ DOMAIN signing' = DOMAIN signing \ {k}
                 /\ \A h \in DOMAIN signing \ {k} : signing'[h] = signing[h] )
      ]_vars

\* an entry has just been removed while another entry holds signatures
C16_Witness ==
    /\ ret.op = "s_remove"
    /\ ret.val.present
    /\ ret.hash \notin DOMAIN signing
    /\ \E h \in DOMAIN signing : signing[h].received_signatures # <<>>

\* remove was called for a private hash without entry
C16_WitnessAbsent ==
    /\ ret.op = "s_remove"
    /\ ~ret.val.present
    /\ signing # EmptyMap

\* C19: add_signature(h, s) with s not yet in the entry under h appends s at
\* the end of received_signatures and changes nothing else: the entry's
\* original_transaction, validators and state, the set of stored private
\* hashes and every other entry stay the same.
C19_NewSignatureAppended ==
    [][ \A k \in SigningKeys, sig \in Signature :
            ( /\ k \in DOMAIN signing
              /\ sig \notin Range(signing[k].received_signatures)
              /\ SigningStore_add_signature(k, sig) )
            => ( /\ ret'.res = "Ok"
                 /\ signing'[k].received_signatures =
                        Append(signing[k].received_signatures, sig)
                 /\ signing'[k].original_transaction = signing[k].original_transaction
                 /\ signing'[k].validators = signing[k].validators
                 /\ signing'[k].state = signing[k].state
                 /\ DOMAIN signing' = DOMAIN signing
                 /\ \A h \in DOMAIN signing \ {k} : signing'[h] = signing[h] )
      ]_vars

\* the second of two signatures, delivered in the order 2, 1, has just been
\* appended while another entry is stored
C19_Witness ==
    /\ ret.op = "s_add_signature"
    /\ ret.res = "Ok"
    /\ ~ret.val.present
    /\ signing[ret.hash].received_signatures = <<2, 1>>
    /\ Cardinality(DOMAIN signing) >= 2

\* C17: in either store, when add_transaction has failed with QueueIsFull
\* and one stored entry is then removed (remove_private_transaction of a
\* stored descriptor hash, SigningStore.remove of a stored private hash), the
\* next add_transaction does not fail with QueueIsFull.
C17_EvictionRecovers ==
    (ret.op \in {"v_add", "s_add"} /\ ret.val.after_evict)
        => ret.res # "QueueIsFull"

\* VerificationStore admitted a transaction right after an eviction that
\* followed a QueueIsFull
C17_Witness ==
    /\ ret.op = "v_add"
    /\ ret.val.after_evict
    /\ ret.res = "Ok"
    /\ Cardinality(DOMAIN descriptors) = MAX_QUEUE_LEN + 1

\* SigningStore accepted a transaction right after an eviction that followed
\* a QueueIsFull
C17_WitnessSigning ==
    /\ ret.op = "s_add"
    /\ ret.val.after_evict
    /\ ret.res = "Ok"
    /\ Cardinality(DOMAIN signing) = MAX_QUEUE_LEN + 1

\* C20: every transaction ready_transactions() returns has a stored
\* descriptor: private_transaction_descriptor succeeds for its hash.
C20_ReadyHaveDescriptors ==
    \A tx \in Range(ready_transactions(transactions)) :
        private_transaction_descriptor(descriptors, tx).res = "Ok"

\* ready_transactions() returned transactions of two senders after a
\* descriptor had been removed
C20_Witness ==
    /\ ret.op = "v_ready"
    /\ Len(ret.val) = 2
    /\ admitted \ DOMAIN descriptors # {}

C18_SplitNeither ==
    /\ mode = "split"
    /\ "neither" \in observed

\* under split moves a reader saw a transaction in both stores
C18_SplitBoth ==
    /\ mode = "split"
    /\ "both" \in observed

====
